---- MODULE Spec2Model ----
(***************************************************************************)
(* Model of ach::allocator<T> (include/acheron/__memory/allocator.hpp):    *)
(* the size-class table, the in-band block header, the pools, the          *)
(* per-class free lists, the large (mmap) path and deallocate.             *)
(*                                                                         *)
(* A 64-bit word is a tuple of four 16-bit limbs, most significant first,  *)
(* so that the header's bit layout (flags, marker, class, size) and the    *)
(* 16-bit truncation of the size-class table are computed bit for bit.     *)
(* Memory is a map from 8-byte-aligned addresses to words; an address that *)
(* is mapped and was never written reads as zero (anonymous mappings are   *)
(* zero-filled).  Addresses, byte counts and element counts are integers   *)
(* below 2^31.                                                             *)
(***************************************************************************)
EXTENDS Integers, Sequences, FiniteSets, TLC

\* ------------------------------------------------------------------ bounds
\* Most allocate(n), n > 0, calls in one run.
MaxAllocs == 3
\* Most allocate calls in one run of two allocator objects.
MaxObjAllocs == 2
\* Largest sizeof(T) max_size() is computed for.
MaxSizeofT == 16
\* max_size() - k elements are probed for k up to MaxBelow.
MaxBelow == 6
\* Threads that use one atomic, calls of double_checked_init by one thread,
\* and fetch_add / increment operations by one thread.
NumThreads == 3
MaxCalls == 2
Iterations == 2
\* Words of the message a sender passes, and the values a word may take.
MsgWords == 4
MaxPayload == 2
\* Stores the storing thread makes while the others spin.
MaxStores == 3
\* get_size_class is applied to every size up to MaxSmallSize and to the
\* sizes 2^k - 1, 2^k and 2^k + 1 for k up to MaxSizeBits.
MaxSmallSize == 130
MaxSizeBits == 36

\* ------------------------------------------------------- program constants
CACHE_LINE_SIZE == 64
PAGE_SIZE == 4096
ALIGNMENT == CACHE_LINE_SIZE
TINY_THRESHOLD == 64
LARGE_THRESHOLD == 1024 * 1024
SIZE_CLASSES == 32
\* sizeof(T) of the element type the allocator is instantiated with.
SizeofT == 1
\* struct BlockHeader { uint64_t data; uint64_t magic; BlockHeader *next; }
OFF_DATA == 0
OFF_MAGIC == 8
OFF_NEXT == 16
HEADER_SIZE == 24
LARGE_CLASS == 255
NULL == 0

\* ------------------------------------------------------------ 64-bit words
LIMB == 65536

RECURSIVE And16(_, _)
And16(a, b) ==
    IF a = 0 \/ b = 0 THEN 0
    ELSE (a % 2) * (b % 2) + 2 * And16(a \div 2, b \div 2)

Or16(a, b) == a + b - And16(a, b)

WAnd(x, y) == [i \in 1..4 |-> And16(x[i], y[i])]
WOr(x, y) == [i \in 1..4 |-> Or16(x[i], y[i])]
WNot(x) == [i \in 1..4 |-> (LIMB - 1) - x[i]]

\* x + y modulo 2^64
WAdd(x, y) ==
    LET s4 == x[4] + y[4]
        s3 == x[3] + y[3] + (s4 \div LIMB)
        s2 == x[2] + y[2] + (s3 \div LIMB)
        s1 == x[1] + y[1] + (s2 \div LIMB)
    IN  <<s1 % LIMB, s2 % LIMB, s3 % LIMB, s4 % LIMB>>

ZeroWord == <<0, 0, 0, 0>>
OnesWord == <<LIMB - 1, LIMB - 1, LIMB - 1, LIMB - 1>>

\* x - 1 modulo 2^64
WDec(x) == WAdd(x, OnesWord)

\* x > y, unsigned
WGt(x, y) ==
    \E i \in 1..4 : x[i] > y[i] /\ \A j \in 1..(i - 1) : x[j] = y[j]

\* 1ULL << k, 0 <= k < 64
WBit(k) == [i \in 1..4 |-> IF i = 4 - (k \div 16) THEN 2 ^ (k % 16) ELSE 0]

\* the word of an integer below 2^31, and back
FromInt(n) == <<0, 0, n \div LIMB, n % LIMB>>
FitsInt(w) == w[1] = 0 /\ w[2] = 0 /\ w[3] < 32768
ToInt(w) == w[3] * LIMB + w[4]

\* truncation to uint16_t
U16(w) == w[4]

\* the carry out of x + y
WCarry(x, y) ==
    LET s4 == x[4] + y[4]
        s3 == x[3] + y[3] + (s4 \div LIMB)
        s2 == x[2] + y[2] + (s3 \div LIMB)
        s1 == x[1] + y[1] + (s2 \div LIMB)
    IN  s1 \div LIMB

\* x - k modulo 2^64, for an integer k below 2^31
WSubInt(x, k) == WAdd(x, WAdd(WNot(FromInt(k)), FromInt(1)))

\* x / d, for an integer 0 < d < 2^15
WDivInt(x, d) ==
    LET c1 == x[1]
        c2 == (c1 % d) * LIMB + x[2]
        c3 == (c2 % d) * LIMB + x[3]
        c4 == (c3 % d) * LIMB + x[4]
    IN  <<c1 \div d, c2 \div d, c3 \div d, c4 \div d>>

\* x * f for an integer 0 <= f < 2^15: the low 64 bits, and what was lost
\* above them
WMulInt(x, f) ==
    LET t4 == x[4] * f
        t3 == x[3] * f + (t4 \div LIMB)
        t2 == x[2] * f + (t3 \div LIMB)
        t1 == x[1] * f + (t2 \div LIMB)
    IN  [low |-> <<t1 % LIMB, t2 % LIMB, t3 % LIMB, t4 % LIMB>>,
         high |-> t1 \div LIMB]

HEADER_MAGIC == <<57005, 48879, 4660, 22136>>    \* 0xDEADBEEF12345678
SIZE_MASK == <<0, 65535, 65535, 65535>>          \* 0x0000FFFFFFFFFFFF
CLASS_MASK == <<255, 0, 0, 0>>                   \* 0x00FF000000000000
MAGIC_MASK == <<61440, 0, 0, 0>>                 \* 0xF000000000000000
MAGIC_VALUE == <<40960, 0, 0, 0>>                \* 0xA000000000000000
FREE_FLAG == WBit(63)
MMAP_FLAG == WBit(62)

\* ------------------------------------------------------------------ memory
Load(mem, a) == IF a \in DOMAIN mem THEN mem[a] ELSE ZeroWord

Store(mem, a, w) == (a :> w) @@ mem

\* ------------------------------------------------------------- BlockHeader
\* static_cast<uint64_t>(b) << k for a bool b
BoolShl(b, k) == IF b THEN WBit(k) ELSE ZeroWord

\* static_cast<uint64_t>(size_class) << 48 for a uint8_t
ClassShl48(c) == <<c % 256, 0, 0, 0>>

hdr_init(mem, h, size, size_class, is_free) ==
    LET data == WOr(WOr(WOr(WAnd(FromInt(size), SIZE_MASK),
                            ClassShl48(size_class)),
                        BoolShl(is_free, 63)),
                    MAGIC_VALUE)
    IN  Store(Store(Store(mem, h + OFF_MAGIC, HEADER_MAGIC),
                    h + OFF_DATA, data),
              h + OFF_NEXT, ZeroWord)

hdr_size(mem, h) == WAnd(Load(mem, h + OFF_DATA), SIZE_MASK)

hdr_is_valid(mem, h) ==
    /\ Load(mem, h + OFF_MAGIC) = HEADER_MAGIC
    /\ WAnd(Load(mem, h + OFF_DATA), MAGIC_MASK) = MAGIC_VALUE
    /\ ~WGt(hdr_size(mem, h), WBit(47))

hdr_is_free(mem, h) == WAnd(Load(mem, h + OFF_DATA), FREE_FLAG) # ZeroWord

hdr_is_mmap(mem, h) == WAnd(Load(mem, h + OFF_DATA), MMAP_FLAG) # ZeroWord

\* (data & CLASS_MASK) >> 48, as uint8_t
hdr_size_class(mem, h) == WAnd(Load(mem, h + OFF_DATA), CLASS_MASK)[1]

hdr_set_free(mem, h, is_free) ==
    Store(mem, h + OFF_DATA,
          WOr(WAnd(Load(mem, h + OFF_DATA), WNot(FREE_FLAG)), BoolShl(is_free, 63)))

hdr_set_mmap(mem, h, is_mmap) ==
    Store(mem, h + OFF_DATA,
          WOr(WAnd(Load(mem, h + OFF_DATA), WNot(MMAP_FLAG)), BoolShl(is_mmap, 62)))

hdr_next(mem, h) == ToInt(Load(mem, h + OFF_NEXT))

hdr_set_next(mem, h, p) == Store(mem, h + OFF_NEXT, FromInt(p))

\* is_aligned without the test of the pointer's low bits
is_aligned_any(mem, ptr) ==
    Load(mem, (ptr - HEADER_SIZE) + OFF_MAGIC) = HEADER_MAGIC

\* is_aligned without the test of the magic word
is_aligned_low_bits(mem, ptr) == ptr % ALIGNMENT = 0

is_aligned(mem, ptr) ==
    IF ptr % ALIGNMENT # 0 THEN FALSE
    ELSE Load(mem, (ptr - HEADER_SIZE) + OFF_MAGIC) = HEADER_MAGIC

\* ------------------------------------------------------------ size classes
\* PAGE_SIZE / slot_size in 64-bit arithmetic
PageDiv(slot_size) ==
    IF FitsInt(slot_size) THEN PAGE_SIZE \div ToInt(slot_size) ELSE 0

SizeClassEntry(i) ==
    LET size == WBit(i + 3)
        alignment == IF WGt(size, FromInt(ALIGNMENT)) THEN size ELSE FromInt(ALIGNMENT)
        slot_size == WAnd(WDec(WAdd(WAdd(size, FromInt(HEADER_SIZE)), alignment)),
                          WNot(WDec(alignment)))
    IN  [size |-> U16(size),
         slot |-> U16(slot_size),
         blocks |-> PageDiv(slot_size) % LIMB]

\* the allocator's members after allocator() has run init_size_classes()
init_size_classes ==
    [size_classes |-> [i \in 0..(SIZE_CLASSES - 1) |-> SizeClassEntry(i)],
     free_lists |-> [i \in 0..(SIZE_CLASSES - 1) |-> NULL],
     pools |-> [i \in 0..(SIZE_CLASSES - 1) |-> NULL]]

RECURSIVE BitOr(_, _)
BitOr(a, b) ==
    IF a = 0 THEN b
    ELSE IF b = 0 THEN a
    ELSE (IF a % 2 = 1 \/ b % 2 = 1 THEN 1 ELSE 0) + 2 * BitOr(a \div 2, b \div 2)

RECURSIVE Shr(_, _)
Shr(n, k) == IF k = 0 \/ n = 0 THEN n ELSE Shr(n \div 2, k - 1)

\* 63 - __builtin_clzll(x): the index of the highest set bit of x > 0
RECURSIVE HighBit(_)
HighBit(x) == IF x <= 1 THEN 0 ELSE 1 + HighBit(x \div 2)

get_size_class(size) ==
    IF size <= TINY_THRESHOLD
    THEN Shr(size - 1, 3) % 256
    ELSE LET n0 == size - 1
             n1 == BitOr(n0, Shr(n0, 1))
             n2 == BitOr(n1, Shr(n1, 2))
             n3 == BitOr(n2, Shr(n2, 4))
             n4 == BitOr(n3, Shr(n3, 8))
             n5 == BitOr(n4, Shr(n4, 16))
             n6 == BitOr(n5, Shr(n5, 32))
         IN  (HighBit(n6 + 1) - 3) % 256

\* --------------------------------------------------------- virtual memory
\* Mappings are records [base, len].  The kernel hands out some unused
\* page-aligned range; the model takes the lowest one at or above MmapBase.
MmapBase == PAGE_SIZE

Overlaps(a, alen, b, blen) == a < b + blen /\ b < a + alen

mmap_addr(mapped, len) ==
    LET cand == {MmapBase} \cup {m.base + m.len : m \in mapped}
        free == {b \in cand : \A m \in mapped : ~Overlaps(b, len, m.base, m.len)}
    IN  CHOOSE b \in free : \A c \in free : b <= c

\* munmap(addr, len): EINVAL (nothing happens) unless addr is page-aligned;
\* otherwise every mapping inside the range is removed with its contents.
munmap(st, addr, len) ==
    IF addr % PAGE_SIZE # 0 THEN st
    ELSE LET gone == {m \in st.mapped : addr <= m.base /\ m.base + m.len <= addr + len}
             dead(a) == \E m \in gone : m.base <= a /\ a < m.base + m.len
         IN  [st EXCEPT !.mapped = st.mapped \ gone,
                        !.mem = [a \in {x \in DOMAIN st.mem : ~dead(x)} |-> st.mem[a]]]

\* (x + PAGE_SIZE - 1) & ~(PAGE_SIZE - 1)
PageRound(x) == ToInt(WAnd(FromInt(x + PAGE_SIZE - 1), WNot(FromInt(PAGE_SIZE - 1))))

\* --------------------------------------------------------------- the pool
\* The loop "for (i = 0; i < num_blocks; ++i)" of allocate_pool (lines
\* 417-423) on memory mem.  Pass i works on header(i) = memory + i * block_size:
\* init(sc.size, size_class, true), then next = the list head left by pass
\* i - 1 (null for pass 0), and header(i) becomes the list head.  A word that
\* several passes write keeps what the last of them wrote.
\* pool_pass without "header->next = new_pool->free_list": a block is not
\* linked to the blocks made before it
pool_pass_unchained(memory, sc, size_class, i) ==
    LET header == memory + i * sc.slot
    IN  hdr_init(<<>>, header, sc.size, size_class, TRUE)

pool_pass(memory, sc, size_class, i) ==
    LET header == memory + i * sc.slot
        prev == IF i = 0 THEN NULL ELSE memory + (i - 1) * sc.slot
    IN  hdr_set_next(hdr_init(<<>>, header, sc.size, size_class, TRUE), header, prev)

\* pool_loop that leaves the first block made, not the last, at the head of
\* the pool's list
pool_loop_from_first(mem, memory, sc, size_class, num_blocks) ==
    LET passes == 0..(num_blocks - 1)
        written == {memory + i * sc.slot + o :
                        i \in passes, o \in {OFF_DATA, OFF_MAGIC, OFF_NEXT}}
        pass_of(a) == CHOOSE i \in passes :
                          a - (memory + i * sc.slot) \in {OFF_DATA, OFF_MAGIC, OFF_NEXT}
    IN  [mem |-> [a \in written |-> pool_pass(memory, sc, size_class, pass_of(a))[a]]
                 @@ mem,
         free_list |-> IF num_blocks = 0 THEN NULL ELSE memory]

pool_loop(mem, memory, sc, size_class, num_blocks) ==
    LET passes == 0..(num_blocks - 1)
        wrote(i, a) == a - (memory + i * sc.slot) \in {OFF_DATA, OFF_MAGIC, OFF_NEXT}
        written == {memory + i * sc.slot + o :
                        i \in passes, o \in {OFF_DATA, OFF_MAGIC, OFF_NEXT}}
        final(a) == LET by == {i \in passes : wrote(i, a)}
                    IN  CHOOSE i \in by : \A j \in by : j <= i
    IN  [mem |-> [a \in written |-> pool_pass(memory, sc, size_class, final(a))[a]]
                 @@ mem,
         free_list |-> IF num_blocks = 0 THEN NULL
                       ELSE memory + (num_blocks - 1) * sc.slot]

\* allocate_pool(size_class); map_ok is whether the mmap in Pool::Pool succeeds
\* (on MAP_FAILED the constructor throws std::bad_alloc and nothing changed).
allocate_pool(st, size_class, map_ok) ==
    IF ~map_ok THEN [st |-> st, threw |-> TRUE]
    ELSE LET memory == mmap_addr(st.mapped, PAGE_SIZE)
             new_pool == Len(st.pool_objs) + 1
             sc == st.size_classes[size_class]
             r == pool_loop(st.mem, memory, sc, size_class, sc.blocks)
         IN  [st |-> [st EXCEPT
                        !.mapped = st.mapped \cup {[base |-> memory, len |-> PAGE_SIZE]},
                        !.pool_objs = Append(st.pool_objs,
                                             [memory |-> memory, cap |-> PAGE_SIZE,
                                              free_list |-> r.free_list,
                                              next |-> st.pools[size_class]]),
                        !.pools[size_class] = new_pool,
                        !.mem = r.mem],
              threw |-> FALSE]

\* ---------------------------------------------------------- allocator core
\* A result of an allocation path: the members and memory afterwards, the
\* pointer returned, whether std::bad_alloc left the call, and whether an
\* mmap of the call failed.
Result(st, ret, threw, oom) == [st |-> st, ret |-> ret, threw |-> threw, oom |-> oom]

\* pop the head of free_lists[size_class] (lines 430-440; header is the
\* non-null list head there, so the "corrupted free list" branch cannot run)
class_pop(st, size_class) ==
    LET header == st.free_lists[size_class]
    IN  Result([st EXCEPT !.free_lists[size_class] = hdr_next(st.mem, header),
                          !.mem = hdr_set_free(st.mem, header, FALSE)],
               header + HEADER_SIZE, FALSE, FALSE)

\* pool_pop without "pools[size_class]->free_list = header->next": the head
\* stays on the pool's list after it was handed out
pool_pop_stuck(st, size_class) ==
    LET pool == st.pools[size_class]
        header == st.pool_objs[pool].free_list
    IN  Result([st EXCEPT !.mem = hdr_set_free(st.mem, header, FALSE)],
               header + HEADER_SIZE, FALSE, FALSE)

\* pop the head of pools[size_class]->free_list (lines 452-464; the inner
\* "if (!header)" cannot run, header is the non-null list head)
pool_pop(st, size_class) ==
    LET pool == st.pools[size_class]
        header == st.pool_objs[pool].free_list
    IN  Result([st EXCEPT !.pool_objs[pool].free_list = hdr_next(st.mem, header),
                          !.mem = hdr_set_free(st.mem, header, FALSE)],
               header + HEADER_SIZE, FALSE, FALSE)

\* allocate_from_size_class with the std::bad_alloc of Pool::Pool swallowed: a
\* failed pool creation ends in "return nullptr"
allocate_from_size_class_quiet(st, size_class, map_ok) ==
    IF st.free_lists[size_class] # NULL THEN class_pop(st, size_class)
    ELSE LET need == \/ st.pools[size_class] = NULL
                     \/ st.pool_objs[st.pools[size_class]].free_list = NULL
             made == IF need THEN allocate_pool(st, size_class, map_ok)
                     ELSE [st |-> st, threw |-> FALSE]
             s1 == made.st
         IN  IF made.threw THEN Result(st, NULL, FALSE, TRUE)
             ELSE IF /\ s1.pools[size_class] # NULL
                     /\ s1.pool_objs[s1.pools[size_class]].free_list # NULL
                  THEN pool_pop(s1, size_class)
                  ELSE Result(s1, NULL, FALSE, FALSE)

\* allocate_from_size_class that makes a new pool whenever free_lists[size_class]
\* is empty, without looking at the pool it has
allocate_from_size_class_eager(st, size_class, map_ok) ==
    IF st.free_lists[size_class] # NULL THEN class_pop(st, size_class)
    ELSE LET made == allocate_pool(st, size_class, map_ok)
             s1 == made.st
         IN  IF made.threw THEN Result(st, NULL, TRUE, TRUE)
             ELSE IF /\ s1.pools[size_class] # NULL
                     /\ s1.pool_objs[s1.pools[size_class]].free_list # NULL
                  THEN pool_pop(s1, size_class)
                  ELSE Result(s1, NULL, FALSE, FALSE)

\* allocate_from_size_class that makes a new pool already when the pool it
\* has is down to its last free block
allocate_from_size_class_hasty(st, size_class, map_ok) ==
    IF st.free_lists[size_class] # NULL THEN class_pop(st, size_class)
    ELSE LET need == \/ st.pools[size_class] = NULL
                     \/ st.pool_objs[st.pools[size_class]].free_list = NULL
                     \/ hdr_next(st.mem, st.pool_objs[st.pools[size_class]].free_list)
                            = NULL
             made == IF need THEN allocate_pool(st, size_class, map_ok)
                     ELSE [st |-> st, threw |-> FALSE]
             s1 == made.st
         IN  IF made.threw THEN Result(st, NULL, TRUE, TRUE)
             ELSE IF /\ s1.pools[size_class] # NULL
                     /\ s1.pool_objs[s1.pools[size_class]].free_list # NULL
                  THEN pool_pop(s1, size_class)
                  ELSE Result(s1, NULL, FALSE, FALSE)

allocate_from_size_class(st, size_class, map_ok) ==
    IF st.free_lists[size_class] # NULL THEN class_pop(st, size_class)
    ELSE LET need == \/ st.pools[size_class] = NULL
                     \/ st.pool_objs[st.pools[size_class]].free_list = NULL
             made == IF need THEN allocate_pool(st, size_class, map_ok)
                     ELSE [st |-> st, threw |-> FALSE]
             s1 == made.st
         IN  IF made.threw THEN Result(st, NULL, TRUE, TRUE)
             ELSE IF /\ s1.pools[size_class] # NULL
                     /\ s1.pool_objs[s1.pools[size_class]].free_list # NULL
                  THEN pool_pop(s1, size_class)
                  ELSE Result(s1, NULL, FALSE, FALSE)

\* allocate_large without "header->set_mmap(true)"
allocate_large_unflagged(st, size, map_ok) ==
    LET total_size == size + HEADER_SIZE
        aligned_size == PageRound(total_size)
        mem_ == mmap_addr(st.mapped, aligned_size)
        m1 == hdr_init(st.mem, mem_, size, LARGE_CLASS, FALSE)
    IN  IF ~map_ok THEN Result(st, NULL, FALSE, TRUE)
        ELSE Result([st EXCEPT !.mapped = st.mapped \cup
                                             {[base |-> mem_, len |-> aligned_size]},
                               !.mem = m1],
                    mem_ + HEADER_SIZE, FALSE, FALSE)

allocate_large(st, size, map_ok) ==
    LET total_size == size + HEADER_SIZE
        aligned_size == PageRound(total_size)
        mem_ == mmap_addr(st.mapped, aligned_size)
        m1 == hdr_init(st.mem, mem_, size, LARGE_CLASS, FALSE)
        m2 == hdr_set_mmap(m1, mem_, TRUE)
    IN  IF ~map_ok THEN Result(st, NULL, FALSE, TRUE)
        ELSE Result([st EXCEPT !.mapped = st.mapped \cup
                                             {[base |-> mem_, len |-> aligned_size]},
                               !.mem = m2],
                    mem_ + HEADER_SIZE, FALSE, FALSE)

\* allocate without "if (n == 0) return nullptr": a request for no element is
\* served like a request for one byte
allocate_zero_served(st, n, map_ok) ==
    LET bytes_needed == IF n = 0 THEN 1 ELSE n * SizeofT
    IN  IF bytes_needed >= LARGE_THRESHOLD
        THEN allocate_large(st, bytes_needed, map_ok)
        ELSE allocate_from_size_class(st, get_size_class(bytes_needed), map_ok)

\* allocate serving a small request from the class after the one it
\* classifies into
allocate_misfiled(st, n, map_ok) ==
    IF n = 0 THEN Result(st, NULL, FALSE, FALSE)
    ELSE LET bytes_needed == n * SizeofT
         IN  IF bytes_needed >= LARGE_THRESHOLD
             THEN allocate_large(st, bytes_needed, map_ok)
             ELSE allocate_from_size_class(
                      st, (get_size_class(bytes_needed) + 1) % SIZE_CLASSES, map_ok)

allocate(st, n, map_ok) ==
    IF n = 0 THEN Result(st, NULL, FALSE, FALSE)
    ELSE LET bytes_needed == n * SizeofT
         IN  IF bytes_needed >= LARGE_THRESHOLD
             THEN allocate_large(st, bytes_needed, map_ok)
             ELSE allocate_from_size_class(st, get_size_class(bytes_needed), map_ok)

\* mark free and prepend to free_lists[size_class] (lines 175-177)
class_push(st, header, size_class) ==
    LET m1 == hdr_set_free(st.mem, header, TRUE)
        m2 == hdr_set_next(m1, header, st.free_lists[size_class])
    IN  [st EXCEPT !.mem = m2, !.free_lists[size_class] = header]

\* deallocate without the is_aligned and is_valid tests
deallocate_unchecked(st, p) ==
    IF p = NULL THEN st
    ELSE LET header == p - HEADER_SIZE
         IN  IF hdr_is_mmap(st.mem, header)
             THEN munmap(st, header,
                         PageRound(ToInt(hdr_size(st.mem, header)) + HEADER_SIZE))
             ELSE LET size_class == hdr_size_class(st.mem, header)
                  IN  IF size_class >= SIZE_CLASSES THEN st
                      ELSE class_push(st, header, size_class)

deallocate(st, p) ==
    IF p = NULL THEN st
    ELSE IF ~is_aligned(st.mem, p) THEN st
    ELSE LET header == p - HEADER_SIZE
         IN  IF ~hdr_is_valid(st.mem, header) THEN st
             ELSE IF hdr_is_mmap(st.mem, header)
                  THEN munmap(st, header,
                              PageRound(ToInt(hdr_size(st.mem, header)) + HEADER_SIZE))
                  ELSE LET size_class == hdr_size_class(st.mem, header)
                       IN  IF size_class >= SIZE_CLASSES THEN st
                           ELSE class_push(st, header, size_class)

\* ------------------------------------------------------------------- state
VARIABLES
    size_classes,   \* SizeClass size_classes[SIZE_CLASSES]
    free_lists,     \* BlockHeader *free_lists[SIZE_CLASSES]
    pools,          \* Pool *pools[SIZE_CLASSES]: index into pool_objs, or NULL
    pool_objs,      \* the Pool objects created so far
    mem,            \* memory: word address -> word
    mapped,         \* the live mappings made by the allocator
    live,           \* caller's view: allocations handed out and not yet given back
    stale,          \* caller's view: pointers given back and not handed out again
    last,           \* the last call and its outcome
    nalloc,         \* completed allocate(n), n > 0, calls
    inst,           \* a second allocator object and the objects' lifetimes
    atomics,        \* the atomic objects and the plain value threads share
    threads         \* each thread's position and locals

vars == <<size_classes, free_lists, pools, pool_objs, mem, mapped,
          live, stale, last, nalloc, inst, atomics, threads>>

atomic_vars == <<atomics, threads>>

\* the allocator's members and the memory it works on
alloc_vars == <<size_classes, free_lists, pools, pool_objs, mem, mapped>>

State ==
    [size_classes |-> size_classes, free_lists |-> free_lists, pools |-> pools,
     pool_objs |-> pool_objs, mem |-> mem, mapped |-> mapped]

SetState(st) ==
    /\ UNCHANGED atomic_vars
    /\ size_classes' = st.size_classes
    /\ free_lists' = st.free_lists
    /\ pools' = st.pools
    /\ pool_objs' = st.pool_objs
    /\ mem' = st.mem
    /\ mapped' = st.mapped

\* Element counts the caller asks for: zero; 64 (at most TINY_THRESHOLD bytes)
\* and 200 (above it), which fall into classes of two and of eight slots per
\* page; the counts next to LARGE_THRESHOLD.
Counts == {0, 64, 200, LARGE_THRESHOLD - 1, LARGE_THRESHOLD + 1}

\* A buffer the caller owns (not obtained from the allocator), below the
\* first mapping.  ForeignPtr(k) is 64-byte aligned; the three words before
\* it are what deallocate reads as its header.
ForeignBase == 8 * CACHE_LINE_SIZE
ForeignPtr(k) == ForeignBase + k * CACHE_LINE_SIZE
ForeignPtrs == {ForeignPtr(k) : k \in 1..3}

\* 1: all zero; 2: the magic word, a data word without the marker;
\* 3: the magic word, the marker, a size above 2^47.
ForeignMem ==
    LET h(k) == ForeignPtr(k) - HEADER_SIZE
    IN  (h(2) + OFF_MAGIC :> HEADER_MAGIC) @@
        (h(3) + OFF_MAGIC :> HEADER_MAGIC) @@
        (h(3) + OFF_DATA :> WOr(MAGIC_VALUE, WOr(WBit(47), WBit(0))))

\* last: op, the call; n, allocate's argument; p, deallocate's argument; ret,
\* the pointer allocate returned; threw, std::bad_alloc left the call; oom, an
\* mmap of the call failed; kind, which input it was; follows, for
\* deallocate(p): the n of the allocate(n) called just before, when p is what it
\* returned (-1 otherwise); again, deallocate(p) directly after deallocate(p).
NoCall == [op |-> "none", n |-> 0, p |-> NULL, ret |-> NULL, threw |-> FALSE,
           oom |-> FALSE, kind |-> "none", follows |-> -1, again |-> FALSE]

\* inst: made, how the second allocator object came to be ("none": there is
\* none); members2, its size_classes, free_lists and pools; alive[i], object i
\* is constructed and not destroyed (1 is the object whose members are the
\* variables size_classes, free_lists, pools); deleted[p], how often "delete
\* pool" ran on Pool object p (no entry: never); crossed, the size classes of
\* the pointers that were given to deallocate of an object other than the one
\* that allocated them; fault, how the process died.
NoInst ==
    [made |-> "none", members2 |-> init_size_classes,
     alive |-> <<TRUE, FALSE>>, deleted |-> <<>>, crossed |-> {},
     fault |-> "none"]

\* atomics: initialized and value, the flag and the value of
\* double_checked_init; init_counter, the atomic the initialisation function
\* counts its runs in; first, the value its first run wrote; atom, the atomic
\* that is added to.  threads[t]: pc, the position in double_checked_init;
\* calls, its completed calls; ops, its completed fetch_add / increment
\* operations; op and ret, the last of them and what it returned; seen, the
\* value of atom right after it.
Threads == 1..NumThreads

NoAtomics ==
    [initialized |-> FALSE, value |-> 0, init_counter |-> 0, first |-> 0, atom |-> 0]

NoThreads ==
    [t \in Threads |-> [pc |-> "idle", calls |-> 0, ops |-> 0, op |-> "none",
                        ret |-> 0, seen |-> 0]]

Init ==
    /\ atomics = NoAtomics
    /\ threads = NoThreads
    /\ inst = NoInst
    /\ size_classes = init_size_classes.size_classes
    /\ free_lists = init_size_classes.free_lists
    /\ pools = init_size_classes.pools
    /\ pool_objs = <<>>
    /\ mem = ForeignMem
    /\ mapped = {}
    /\ live = {}
    /\ stale = {}
    /\ last = NoCall
    /\ nalloc = 0

\* ----------------------------------------------------------------- actions
\* pointer allocate(size_type n)
Call_allocate(n, map_ok) ==
    LET r == allocate(State, n, map_ok)
        done == n > 0 /\ ~r.threw
    IN  /\ SetState(r.st)
        /\ nalloc' = IF done THEN nalloc + 1 ELSE nalloc
        /\ live' = IF r.ret # NULL
                   THEN live \cup {[id |-> nalloc + 1, p |-> r.ret, bytes |-> n * SizeofT]}
                   ELSE live
        /\ stale' = stale \ {r.ret}
        /\ last' = [op |-> "allocate", n |-> n, p |-> NULL, ret |-> r.ret,
                    threw |-> r.threw, oom |-> r.oom,
                    kind |-> IF n = 0 THEN "zero"
                             ELSE IF n * SizeofT >= LARGE_THRESHOLD THEN "large"
                             ELSE "pool",
                    follows |-> -1, again |-> FALSE]
        /\ inst' = inst

\* void deallocate(pointer p, size_type)
Call_deallocate(p, kind) ==
    /\ SetState(deallocate(State, p))
    /\ live' = {l \in live : l.p # p}
    /\ stale' = IF \E l \in live : l.p = p THEN stale \cup {p} ELSE stale
    /\ nalloc' = nalloc
    /\ last' = [op |-> "deallocate", n |-> 0, p |-> p, ret |-> NULL,
                threw |-> FALSE, oom |-> FALSE, kind |-> kind,
                follows |-> IF last.op = "allocate" /\ ~last.threw /\ last.ret = p
                            THEN last.n ELSE -1,
                again |-> last.op = "deallocate" /\ last.p = p]
    /\ inst' = inst

AllocateZero == Call_allocate(0, TRUE)

Allocate ==
    /\ nalloc < MaxAllocs
    /\ \E n \in Counts \ {0}, map_ok \in BOOLEAN : Call_allocate(n, map_ok)

DeallocateNull == Call_deallocate(NULL, "null")

DeallocateLive == \E l \in live : Call_deallocate(l.p, "live")

\* a pointer the caller already gave back
DeallocateStale == \E p \in stale : Call_deallocate(p, "stale")

DeallocateForeign == \E p \in ForeignPtrs : Call_deallocate(p, "foreign")

\* a pointer to a slot of a pool that was never handed out
Unissued ==
    {pool_objs[i].free_list + HEADER_SIZE :
        i \in {j \in 1..Len(pool_objs) : pool_objs[j].free_list # NULL}}

DeallocateUnissued == \E p \in Unissued : Call_deallocate(p, "unissued")

Next ==
    \/ AllocateZero
    \/ Allocate
    \/ DeallocateNull
    \/ DeallocateLive
    \/ DeallocateStale
    \/ DeallocateForeign
    \/ DeallocateUnissued

Spec == Init /\ [][Next]_vars

\* ------------------------------------------------- BlockHeader on its own
\* One header at HdrAt, driven through init, set_free and set_mmap alone.
\* last holds the call and the size and class init was given.
HdrAt == MmapBase

HdrSizes == {0, 8, 64, 4096, LARGE_THRESHOLD + 1}

HdrClasses == {0, 7, SIZE_CLASSES - 1, LARGE_CLASS}

HdrCall(op, size, size_class, arg) ==
    [op |-> op, size |-> size, size_class |-> size_class, arg |-> arg]

Hdr_init ==
    \E size \in HdrSizes, size_class \in HdrClasses, is_free \in BOOLEAN :
        /\ mem' = hdr_init(mem, HdrAt, size, size_class, is_free)
        /\ last' = HdrCall("init", size, size_class, is_free)
        /\ UNCHANGED <<size_classes, free_lists, pools, pool_objs, mapped,
                       live, stale, nalloc, inst, atomics, threads>>

Hdr_set_free ==
    \E is_free \in BOOLEAN :
        /\ last.op \in {"init", "set_free", "set_mmap"}
        /\ mem' = hdr_set_free(mem, HdrAt, is_free)
        /\ last' = HdrCall("set_free", last.size, last.size_class, is_free)
        /\ UNCHANGED <<size_classes, free_lists, pools, pool_objs, mapped,
                       live, stale, nalloc, inst, atomics, threads>>

Hdr_set_mmap ==
    \E is_mmap \in BOOLEAN :
        /\ last.op \in {"init", "set_free", "set_mmap"}
        /\ mem' = hdr_set_mmap(mem, HdrAt, is_mmap)
        /\ last' = HdrCall("set_mmap", last.size, last.size_class, is_mmap)
        /\ UNCHANGED <<size_classes, free_lists, pools, pool_objs, mapped,
                       live, stale, nalloc, inst, atomics, threads>>

HeaderNext == Hdr_init \/ Hdr_set_free \/ Hdr_set_mmap

HeaderSpec == Init /\ [][HeaderNext]_vars

\* --------------------------------- an allocator made by the converting ctor
\* template<typename U> allocator(const allocator<U> &) noexcept {}: its body
\* is empty, so the members keep their default member initializers "= {}".
rebind_members ==
    [size_classes |-> [i \in 0..(SIZE_CLASSES - 1) |->
                          [size |-> 0, slot |-> 0, blocks |-> 0]],
     free_lists |-> [i \in 0..(SIZE_CLASSES - 1) |-> NULL],
     pools |-> [i \in 0..(SIZE_CLASSES - 1) |-> NULL]]

RebindInit ==
    /\ atomics = NoAtomics
    /\ threads = NoThreads
    /\ inst = NoInst
    /\ size_classes = rebind_members.size_classes
    /\ free_lists = rebind_members.free_lists
    /\ pools = rebind_members.pools
    /\ pool_objs = <<>>
    /\ mem = ForeignMem
    /\ mapped = {}
    /\ live = {}
    /\ stale = {}
    /\ last = NoCall
    /\ nalloc = 0

RebindNext ==
    \/ AllocateZero
    \/ Allocate
    \/ DeallocateNull
    \/ DeallocateLive
    \/ DeallocateStale
    \/ DeallocateForeign

RebindSpec == RebindInit /\ [][RebindNext]_vars

\* the first allocate(n) of a default-constructed allocator returns a pointer
DefaultServes(n) ==
    allocate([size_classes |-> init_size_classes.size_classes,
              free_lists |-> init_size_classes.free_lists,
              pools |-> init_size_classes.pools,
              pool_objs |-> <<>>, mem |-> ForeignMem, mapped |-> {}],
             n, TRUE).ret # NULL

\* ------------------------------------------------------- derived notions
\* the headers stamped in the allocator's mappings: one per pool slot and one
\* per large mapping (the magic word is written by BlockHeader::init alone)
HeaderAddrs ==
    {a - OFF_MAGIC : a \in {x \in DOMAIN mem : x >= MmapBase /\ mem[x] = HEADER_MAGIC}}

\* p points into the page of some pool
InPool(p) ==
    \E i \in 1..Len(pool_objs) :
        pool_objs[i].memory <= p /\ p < pool_objs[i].memory + pool_objs[i].cap

\* p is the payload address of a large mapping
IsLarge(p) == \E m \in mapped : ~InPool(m.base) /\ p = m.base + HEADER_SIZE

\* the list from header h through next ends at null without visiting a
\* header twice
RECURSIVE Acyclic(_, _)
Acyclic(h, seen) ==
    IF h = NULL THEN TRUE
    ELSE IF h \in seen THEN FALSE
    ELSE Acyclic(hdr_next(mem, h), seen \cup {h})

Classes == 0..(SIZE_CLASSES - 1)

\* ---------------------------------------------------------------- max_size
\* max_size() of allocator<T> with sizeof(T) = sizeof_T, without the division
\* rounding down: one element more
max_size_plus_one(sizeof_T) == WAdd(WDivInt(OnesWord, sizeof_T), FromInt(1))

\* std::numeric_limits<size_type>::max() / sizeof(T), size_type = size_t
max_size(sizeof_T) == WDivInt(OnesWord, sizeof_T)

\* n * sizeof(T) as allocate computes it (line 131), for n = base + plus with
\* plus 0 or 1: the 64-bit product, and whether the arithmetic wrapped
bytes_needed(base, plus, sizeof_T) ==
    LET m == WMulInt(base, sizeof_T)
        extra == FromInt(plus * sizeof_T)
    IN  [bytes |-> WAdd(m.low, extra),
         wrapped |-> m.high > 0 \/ WCarry(m.low, extra) > 0]

\* max_size() for some element size, and the byte count of a probe n: a few
\* counts up to max_size(), 0, 1, and max_size() + 1.  last: ret is what
\* max_size() returned; the probe is n = base + plus.
Call_max_size ==
    \E sizeof_T \in 1..MaxSizeofT :
        LET ret == max_size(sizeof_T)
            probes == {[base |-> WSubInt(ret, k), plus |-> 0] : k \in 0..MaxBelow}
                      \cup {[base |-> FromInt(k), plus |-> 0] : k \in {0, 1}}
                      \cup {[base |-> ret, plus |-> 1]}
        IN  \E pr \in probes :
                /\ last' = [op |-> "max_size", sizeof_T |-> sizeof_T, ret |-> ret,
                            base |-> pr.base, plus |-> pr.plus,
                            bytes |-> bytes_needed(pr.base, pr.plus, sizeof_T).bytes,
                            wrapped |-> bytes_needed(pr.base, pr.plus, sizeof_T).wrapped]
                /\ UNCHANGED <<size_classes, free_lists, pools, pool_objs, mem, mapped,
                               live, stale, nalloc, inst, atomics, threads>>

MaxSizeSpec == Init /\ [][Call_max_size]_vars

\* ------------------------------------------- several allocator objects
\* Two allocator objects in one process.  Object 1 has its members in the
\* variables size_classes, free_lists and pools, object 2 in inst.members2;
\* Pool objects, memory and mappings are the process's.
Objects == {1, 2}

\* element counts asked for here: a class of two slots per page and a class
\* of one (every allocate of it makes a pool)
InstCounts == {64, 2048}

Members(i) ==
    IF i = 1
    THEN [size_classes |-> size_classes, free_lists |-> free_lists, pools |-> pools]
    ELSE inst.members2

StateOf(i) ==
    [size_classes |-> Members(i).size_classes,
     free_lists |-> Members(i).free_lists,
     pools |-> Members(i).pools,
     pool_objs |-> pool_objs, mem |-> mem, mapped |-> mapped]

\* object i's members and the process's memory become those of st; the rest
\* of inst becomes in
PutState(i, st, in) ==
    /\ UNCHANGED atomic_vars
    /\ pool_objs' = st.pool_objs
    /\ mem' = st.mem
    /\ mapped' = st.mapped
    /\ IF i = 1
       THEN /\ size_classes' = st.size_classes
            /\ free_lists' = st.free_lists
            /\ pools' = st.pools
            /\ inst' = in
       ELSE /\ UNCHANGED <<size_classes, free_lists, pools>>
            /\ inst' = [in EXCEPT !.members2 =
                           [size_classes |-> st.size_classes,
                            free_lists |-> st.free_lists,
                            pools |-> st.pools]]

\* operator==(const allocator<T1> &, const allocator<T2> &)
allocator_eq(a, b) == TRUE

DelCount(deleted, pool) == IF pool \in DOMAIN deleted THEN deleted[pool] ELSE 0

\* the Pool objects of the chain that starts at pool
RECURSIVE ChainOf(_, _)
ChainOf(objs, pool) ==
    IF pool = NULL THEN {} ELSE {pool} \cup ChainOf(objs, objs[pool].next)

\* ~allocator with "Pool *next = pool->next" left out of use: only the first
\* pool of each chain is deleted
PoolsOf_heads(st) == {st.pools[c] : c \in Classes} \ {NULL}

\* the Pool objects ~allocator reaches: every class's chain
PoolsOf(st) == UNION {ChainOf(st.pool_objs, st.pools[c]) : c \in Classes}

\* ~Pool on each of ps: munmap(memory, cap)
RECURSIVE unmap_pools(_, _)
unmap_pools(st, ps) ==
    IF ps = {} THEN st
    ELSE LET pool == CHOOSE x \in ps : TRUE
         IN  unmap_pools(munmap(st, st.pool_objs[pool].memory, st.pool_objs[pool].cap),
                         ps \ {pool})

\* ~allocator(): "delete pool" on every pool of every chain.  A Pool deleted
\* before (again) is a freed object: its destructor left memory == nullptr in
\* it, so a second run unmaps nothing, and the second operator delete is a
\* double free.
destroy(st, deleted) ==
    LET ps == PoolsOf(st)
        fresh == {pool \in ps : DelCount(deleted, pool) = 0}
    IN  [st |-> unmap_pools(st, fresh),
         again |-> ps \ fresh,
         deleted |-> [pool \in DOMAIN deleted \cup ps |->
                         DelCount(deleted, pool) + (IF pool \in ps THEN 1 ELSE 0)]]

\* [a, a + len) lies inside a live mapping
IsMapped(maps, a, len) == \E m \in maps : m.base <= a /\ a + len <= m.base + m.len

InstCall(op, who, n, p, ret, by) ==
    [op |-> op, who |-> who, n |-> n, p |-> p, ret |-> ret, by |-> by]

\* allocator(): a second, default-constructed object
I_Default ==
    /\ inst.made = "none" /\ inst.fault = "none"
    /\ inst' = [inst EXCEPT !.made = "default", !.members2 = init_size_classes,
                            !.alive[2] = TRUE]
    /\ last' = InstCall("default", 2, 0, NULL, NULL, 0)
    /\ UNCHANGED <<alloc_vars, live, stale, nalloc, atomic_vars>>

\* allocator(const allocator &) = default: memberwise copy of object 1
I_Copy ==
    /\ inst.made = "none" /\ inst.fault = "none" /\ inst.alive[1]
    /\ inst' = [inst EXCEPT !.made = "copy", !.members2 = Members(1),
                            !.alive[2] = TRUE]
    /\ last' = InstCall("copy", 2, 0, NULL, NULL, 1)
    /\ UNCHANGED <<alloc_vars, live, stale, nalloc, atomic_vars>>

\* object i's allocate(n).  Reading a deleted Pool is a use after free: the
\* read yields what the object last held, or the process dies.  Touching a
\* header outside every mapping is a segmentation fault.
I_Allocate ==
    \E i \in Objects, n \in InstCounts :
        /\ inst.alive[i] /\ inst.fault = "none" /\ nalloc < MaxObjAllocs
        /\ LET st == StateOf(i)
               r == allocate(st, n, TRUE)
               c == get_size_class(n * SizeofT)
               uses_deleted == /\ st.free_lists[c] = NULL
                               /\ st.pools[c] # NULL
                               /\ DelCount(inst.deleted, st.pools[c]) > 0
               unmapped == /\ r.ret # NULL
                           /\ ~IsMapped(r.st.mapped, r.ret - HEADER_SIZE, HEADER_SIZE)
           IN  \E fault \in (IF unmapped THEN {"segv"}
                              ELSE IF uses_deleted THEN {"none", "segv"}
                              ELSE {"none"}) :
                   IF fault = "none"
                   THEN /\ PutState(i, r.st, inst)
                        /\ nalloc' = nalloc + 1
                        /\ live' = IF r.ret # NULL
                                   THEN live \cup {[id |-> nalloc + 1, p |-> r.ret,
                                                    bytes |-> n * SizeofT, by |-> i]}
                                   ELSE live
                        /\ stale' = stale \ {r.ret}
                        /\ last' = InstCall("allocate", i, n, NULL, r.ret, i)
                   ELSE /\ inst' = [inst EXCEPT !.fault = fault]
                        /\ last' = InstCall("allocate", i, n, NULL, NULL, i)
                        /\ UNCHANGED <<alloc_vars, live, stale, nalloc, atomic_vars>>

\* object i's deallocate(p, n) of a pointer some object allocated
I_Deallocate ==
    \E i \in Objects, l \in live :
        /\ inst.alive[i] /\ inst.fault = "none"
        /\ PutState(i, deallocate(StateOf(i), l.p),
                    [inst EXCEPT !.crossed =
                        IF l.by # i
                        THEN inst.crossed \cup {get_size_class(l.bytes)}
                        ELSE inst.crossed])
        /\ live' = live \ {l}
        /\ stale' = stale \cup {l.p}
        /\ nalloc' = nalloc
        /\ last' = InstCall("deallocate", i, 0, l.p, NULL, l.by)

\* object i's ~allocator().  The caller's allocations from object i whose
\* memory went with its pools are no longer the caller's.
I_Destroy ==
    \E i \in Objects :
        /\ inst.alive[i] /\ inst.fault = "none"
        /\ LET d == destroy(StateOf(i), inst.deleted)
           IN  \E fault \in (IF d.again = {} THEN {"none"} ELSE {"none", "double free"}) :
                   /\ PutState(i, d.st, [inst EXCEPT !.alive[i] = FALSE,
                                                     !.deleted = d.deleted,
                                                     !.fault = fault])
                   /\ live' = {l \in live :
                                  l.by # i \/ IsMapped(d.st.mapped, l.p, l.bytes)}
                   /\ last' = InstCall("destroy", i, 0, NULL, NULL, 0)
                   /\ UNCHANGED <<stale, nalloc>>

InstNext == I_Default \/ I_Copy \/ I_Allocate \/ I_Deallocate \/ I_Destroy

InstSpec == Init /\ [][InstNext]_vars

\* the Pool objects an allocator object that is alive can reach
UsedPools ==
    UNION {PoolsOf(StateOf(i)) : i \in {j \in Objects : inst.alive[j]}}

\* ----------------------------------------------------------------- atomics
\* ach::atomic<T> wraps std::atomic<T>: a load, a store and a fetch_add are
\* each one indivisible step on the atomic's value.
consume_load(atom) == atom

publish_store(atom, value) == value

\* fetch_add that stores the old value back: the addition is lost
fetch_add_lost(atom, value) == [atom |-> atom, ret |-> atom]

\* fetch_add(atom, value): the new value of the atomic and the value returned
fetch_add(atom, value) == [atom |-> atom + value, ret |-> atom]

\* increment(atom): fetch_add(atom, 1) + 1
increment(atom) ==
    LET r == fetch_add(atom, 1)
    IN  [atom |-> r.atom, ret |-> r.ret + 1]

\* everything but the atomics and the threads
rest_vars ==
    <<size_classes, free_lists, pools, pool_objs, mem, mapped,
      live, stale, last, nalloc, inst>>

\* the value thread t's initialisation function writes
InitValue(t) == 100 + t

\* thread t calls double_checked_init(initialized, value, init_func)
D_call(t) ==
    /\ threads[t].pc \in {"idle", "done"} /\ threads[t].calls < MaxCalls
    /\ threads' = [threads EXCEPT ![t].pc = "check1"]
    /\ UNCHANGED <<atomics, rest_vars>>

\* if (!consume_load(initialized)), the outer test (line 160)
D_check1(t) ==
    /\ threads[t].pc = "check1"
    /\ threads' = [threads EXCEPT
                      ![t].pc = IF ~consume_load(atomics.initialized)
                                THEN "check2" ELSE "done",
                      ![t].calls = IF ~consume_load(atomics.initialized)
                                   THEN @ ELSE @ + 1]
    /\ UNCHANGED <<atomics, rest_vars>>

\* if (!consume_load(initialized)), the inner test (line 163)
D_check2(t) ==
    /\ threads[t].pc = "check2"
    /\ threads' = [threads EXCEPT
                      ![t].pc = IF ~consume_load(atomics.initialized)
                                THEN "init" ELSE "done",
                      ![t].calls = IF ~consume_load(atomics.initialized)
                                   THEN @ ELSE @ + 1]
    /\ UNCHANGED <<atomics, rest_vars>>

\* init_func(value) (line 166): writes the value and counts its run
D_init(t) ==
    /\ threads[t].pc = "init"
    /\ atomics' = [atomics EXCEPT
                      !.value = InitValue(t),
                      !.init_counter = fetch_add(atomics.init_counter, 1).atom,
                      !.first = IF atomics.init_counter = 0 THEN InitValue(t) ELSE @]
    /\ threads' = [threads EXCEPT ![t].pc = "publish"]
    /\ UNCHANGED rest_vars

\* release_fence(); publish_store(initialized, true) (lines 171-172)
D_publish(t) ==
    /\ threads[t].pc = "publish"
    /\ atomics' = [atomics EXCEPT !.initialized = publish_store(@, TRUE)]
    /\ threads' = [threads EXCEPT ![t].pc = "done", ![t].calls = @ + 1]
    /\ UNCHANGED rest_vars

DciNext ==
    \E t \in Threads :
        D_call(t) \/ D_check1(t) \/ D_check2(t) \/ D_init(t) \/ D_publish(t)

DciSpec == Init /\ [][DciNext]_vars

\* thread t's next fetch_add(atom, 1)
T_fetch_add(t) ==
    /\ threads[t].ops < Iterations
    /\ LET r == fetch_add(atomics.atom, 1)
       IN  /\ atomics' = [atomics EXCEPT !.atom = r.atom]
           /\ threads' = [threads EXCEPT ![t].ops = @ + 1, ![t].op = "fetch_add",
                                         ![t].ret = r.ret, ![t].seen = r.atom]
    /\ UNCHANGED rest_vars

\* thread t's next increment(atom)
T_increment(t) ==
    /\ threads[t].ops < Iterations
    /\ LET r == increment(atomics.atom)
       IN  /\ atomics' = [atomics EXCEPT !.atom = r.atom]
           /\ threads' = [threads EXCEPT ![t].ops = @ + 1, ![t].op = "increment",
                                         ![t].ret = r.ret, ![t].seen = r.atom]
    /\ UNCHANGED rest_vars

CounterNext == \E t \in Threads : T_fetch_add(t) \/ T_increment(t)

CounterSpec == Init /\ [][CounterNext]_vars

\* the sum of f[t] over the threads in S
RECURSIVE SumOver(_, _)
SumOver(f, S) ==
    IF S = {} THEN 0
    ELSE LET t == CHOOSE x \in S : TRUE
         IN  f[t] + SumOver(f, S \ {t})

\* ------------------------------------------------ release / acquire order
\* Memory as the C++ memory model orders it.  Every location has a history of
\* messages [val, view]; a thread's view gives, per location, the oldest
\* message it may still read.  A release store puts the storing thread's view
\* into its message, an acquire load that reads the message takes that view
\* over; a relaxed or plain access carries nothing.  Location Flag is the
\* atomic<bool>, locations 1..MsgWords are the words of the message.
Flag == 0

MpLocs == 0..MsgWords

BottomView == [x \in MpLocs |-> 1]

ViewJoin(a, b) == [x \in MpLocs |-> IF a[x] >= b[x] THEN a[x] ELSE b[x]]

\* get_optimized_store_order as it is under ACH_ARCH_X86: a release store
\* becomes a relaxed one
get_optimized_store_order_x86(order) ==
    IF order \in {"relaxed", "release", "acquire"} THEN "relaxed"
    ELSE IF order = "acq_rel" THEN "release"
    ELSE "seq_cst"

\* get_optimized_store_order (ACH_ARCH_X86 is not defined)
get_optimized_store_order(order) ==
    IF order = "relaxed" THEN "relaxed"
    ELSE IF order = "release" THEN "release"
    ELSE IF order = "acquire" THEN "relaxed"
    ELSE IF order = "acq_rel" THEN "release"
    ELSE "seq_cst"

\* get_optimized_load_order (ACH_ARCH_X86 is not defined)
get_optimized_load_order(order) ==
    IF order = "relaxed" THEN "relaxed"
    ELSE IF order = "acquire" THEN "acquire"
    ELSE IF order = "release" THEN "relaxed"
    ELSE IF order = "acq_rel" THEN "acquire"
    ELSE "seq_cst"

\* std::atomic<T>::store(desired, order), and a plain write (order "relaxed"),
\* by a thread whose view is view
std_store(hist, view, x, desired, order) ==
    LET i == Len(hist[x]) + 1
        v2 == [view EXCEPT ![x] = i]
        carried == IF order \in {"release", "seq_cst"} THEN v2
                   ELSE [BottomView EXCEPT ![x] = i]
    IN  [hist |-> [hist EXCEPT ![x] = Append(@, [val |-> desired, view |-> carried])],
         view |-> v2]

\* the messages of x a thread with this view may read
Readable(hist, view, x) == view[x]..Len(hist[x])

\* std::atomic<T>::load(order), and a plain read (order "relaxed"), that reads
\* message i of x
std_load(hist, view, x, i, order) ==
    LET msg == hist[x][i]
        v2 == [view EXCEPT ![x] = i]
    IN  [val |-> msg.val,
         view |-> IF order \in {"acquire", "seq_cst"} THEN ViewJoin(v2, msg.view)
                  ELSE v2]

\* atomic<T>::store and atomic<T>::load
atomic_store(hist, view, x, desired, order) ==
    std_store(hist, view, x, desired, get_optimized_store_order(order))

atomic_load(hist, view, x, i, order) ==
    std_load(hist, view, x, i, get_optimized_load_order(order))

\* publish_store(atom, value) and consume_load(atom) on location x
publish_store_at(hist, view, x, value) == atomic_store(hist, view, x, value, "release")

consume_load_at(hist, view, x, i) == atomic_load(hist, view, x, i, "acquire")

\* The sender writes the words of the message, then publishes the flag; the
\* receiver spins on the flag, then reads the words.  sent and got are the
\* values written and read, in order.
MpInit ==
    /\ atomics = [hist |-> [x \in MpLocs |-> <<[val |-> 0, view |-> BottomView]>>]]
    /\ threads = [sender |-> [pc |-> 1, view |-> BottomView, sent |-> <<>>],
                  receiver |-> [pc |-> "spin", view |-> BottomView, got |-> <<>>]]
    /\ inst = NoInst
    /\ size_classes = init_size_classes.size_classes
    /\ free_lists = init_size_classes.free_lists
    /\ pools = init_size_classes.pools
    /\ pool_objs = <<>>
    /\ mem = ForeignMem
    /\ mapped = {}
    /\ live = {}
    /\ stale = {}
    /\ last = NoCall
    /\ nalloc = 0

\* msg.data[w] = v
S_write ==
    /\ threads.sender.pc \in 1..MsgWords
    /\ \E v \in 1..MaxPayload :
           LET r == std_store(atomics.hist, threads.sender.view, threads.sender.pc,
                              v, "relaxed")
           IN  /\ atomics' = [atomics EXCEPT !.hist = r.hist]
               /\ threads' = [threads EXCEPT !.sender.view = r.view,
                                             !.sender.pc = @ + 1,
                                             !.sender.sent = Append(@, v)]
    /\ UNCHANGED rest_vars

\* publish_store(ready, true)
S_publish ==
    /\ threads.sender.pc = MsgWords + 1
    /\ LET r == publish_store_at(atomics.hist, threads.sender.view, Flag, 1)
       IN  /\ atomics' = [atomics EXCEPT !.hist = r.hist]
           /\ threads' = [threads EXCEPT !.sender.view = r.view, !.sender.pc = @ + 1]
    /\ UNCHANGED rest_vars

\* while (!consume_load(ready)) {}
R_spin ==
    /\ threads.receiver.pc = "spin"
    /\ \E i \in Readable(atomics.hist, threads.receiver.view, Flag) :
           LET r == consume_load_at(atomics.hist, threads.receiver.view, Flag, i)
           IN  threads' = [threads EXCEPT !.receiver.view = r.view,
                                          !.receiver.pc = IF r.val = 1 THEN "read"
                                                          ELSE "spin"]
    /\ UNCHANGED <<atomics, rest_vars>>

\* the read of msg.data[w], w the next word
R_read ==
    /\ threads.receiver.pc = "read"
    /\ Len(threads.receiver.got) < MsgWords
    /\ LET w == Len(threads.receiver.got) + 1
       IN  \E i \in Readable(atomics.hist, threads.receiver.view, w) :
               LET r == std_load(atomics.hist, threads.receiver.view, w, i, "relaxed")
               IN  threads' = [threads EXCEPT !.receiver.view = r.view,
                                              !.receiver.got = Append(@, r.val)]
    /\ UNCHANGED <<atomics, rest_vars>>

MpNext == S_write \/ S_publish \/ R_spin \/ R_read

MpSpec == MpInit /\ [][MpNext]_vars

\* ------------------------------------------------- spin_wait_until_equals
\* Every thread of Threads waits in spin_wait_until_equals(atom, Expected)
\* while one more thread stores into atom.  atomics: atom, the atomic's value;
\* held, every value it has held; stores, the stores done.  threads[t].pc:
\* "test", at the loop test; "hint", in the loop body; "returned".
Expected == 42

SpinValues == {0, 7, Expected}

\* the loop test with the comparison inverted: the wait ends on a value that
\* is not the expected one
spin_test_inverted(value, expected_value) == value = expected_value

\* atom.load(memory_order::acquire) != expected_value (line 198)
spin_test(value, expected_value) == value # expected_value

SpinInit ==
    /\ atomics = [atom |-> 0, held |-> {0}, stores |-> 0]
    /\ threads = [t \in Threads |-> [pc |-> "test"]]
    /\ inst = NoInst
    /\ size_classes = init_size_classes.size_classes
    /\ free_lists = init_size_classes.free_lists
    /\ pools = init_size_classes.pools
    /\ pool_objs = <<>>
    /\ mem = ForeignMem
    /\ mapped = {}
    /\ live = {}
    /\ stale = {}
    /\ last = NoCall
    /\ nalloc = 0

\* publish_store(atom, v) by the storing thread
P_store ==
    /\ atomics.stores < MaxStores
    /\ \E v \in SpinValues :
           atomics' = [atomics EXCEPT !.atom = publish_store(@, v),
                                      !.held = @ \cup {v},
                                      !.stores = @ + 1]
    /\ UNCHANGED <<threads, rest_vars>>

\* the loop test of thread t
W_test(t) ==
    /\ threads[t].pc = "test"
    /\ threads' = [threads EXCEPT
                      ![t].pc = IF spin_test(consume_load(atomics.atom), Expected)
                                THEN "hint" ELSE "returned"]
    /\ UNCHANGED <<atomics, rest_vars>>

\* the loop body of thread t: the wait hint
W_hint(t) ==
    /\ threads[t].pc = "hint"
    /\ threads' = [threads EXCEPT ![t].pc = "test"]
    /\ UNCHANGED <<atomics, rest_vars>>

SpinNext == P_store \/ \E t \in Threads : W_test(t) \/ W_hint(t)

\* every waiting thread is scheduled again and again
SpinSpec ==
    /\ SpinInit /\ [][SpinNext]_vars
    /\ \A t \in Threads : WF_vars(W_test(t)) /\ WF_vars(W_hint(t))

\* ------------------------------------------- allocate for any element type
\* allocate_n with "bytes_needed > LARGE_THRESHOLD": a request of exactly
\* LARGE_THRESHOLD bytes goes through a size class
allocate_n_above(st, base, plus, sizeof_T, map_ok) ==
    LET n == WAdd(base, FromInt(plus))
        bytes == ToInt(bytes_needed(base, plus, sizeof_T).bytes)
    IN  IF n = ZeroWord THEN Result(st, NULL, FALSE, FALSE)
        ELSE IF bytes > LARGE_THRESHOLD THEN allocate_large(st, bytes, map_ok)
        ELSE allocate_from_size_class(st, get_size_class(bytes), map_ok)

\* allocate(n) of allocator<T> with sizeof(T) = sizeof_T, for the 64-bit count
\* n = base + plus whose byte count "n * sizeof(T)" (line 131, computed
\* modulo 2^64) is below 2^31
allocate_n(st, base, plus, sizeof_T, map_ok) ==
    LET n == WAdd(base, FromInt(plus))
        bytes == ToInt(bytes_needed(base, plus, sizeof_T).bytes)
    IN  IF n = ZeroWord THEN Result(st, NULL, FALSE, FALSE)
        ELSE IF bytes >= LARGE_THRESHOLD THEN allocate_large(st, bytes, map_ok)
        ELSE allocate_from_size_class(st, get_size_class(bytes), map_ok)

\* The counts asked for: 1, 64, 200, LARGE_THRESHOLD - 1 and LARGE_THRESHOLD
\* elements, and max_size() + 1 + k elements for k up to MaxBelow.
CountProbes(sizeof_T) ==
    {[base |-> FromInt(k), plus |-> 0] :
        k \in {1, 64, 200, LARGE_THRESHOLD - 1, LARGE_THRESHOLD}}
    \cup {[base |-> max_size(sizeof_T), plus |-> 1 + k] : k \in 1..MaxBelow}

\* The first allocate of a fresh allocator.  last: the count is base + plus;
\* bytes is n * sizeof(T) as line 131 computes it; wrapped, whether that is
\* not the true product.
Call_allocate_n ==
    /\ nalloc = 0 /\ last.op = "none"
    /\ \E sizeof_T \in 1..MaxSizeofT, map_ok \in BOOLEAN :
           \E pr \in CountProbes(sizeof_T) :
               LET bn == bytes_needed(pr.base, pr.plus, sizeof_T)
                   r == allocate_n(State, pr.base, pr.plus, sizeof_T, map_ok)
               IN  /\ WCarry(pr.base, FromInt(pr.plus)) = 0
                   /\ FitsInt(bn.bytes) /\ ToInt(bn.bytes) >= 1
                   /\ SetState(r.st)
                   /\ nalloc' = IF r.threw THEN nalloc ELSE nalloc + 1
                   /\ live' = IF r.ret # NULL
                              THEN live \cup {[id |-> nalloc + 1, p |-> r.ret,
                                               bytes |-> ToInt(bn.bytes)]}
                              ELSE live
                   /\ stale' = stale
                   /\ last' = [op |-> "allocate_n", sizeof_T |-> sizeof_T,
                               base |-> pr.base, plus |-> pr.plus,
                               bytes |-> ToInt(bn.bytes), wrapped |-> bn.wrapped,
                               ret |-> r.ret, threw |-> r.threw, oom |-> r.oom]
                   /\ inst' = inst

CountSpec == Init /\ [][Call_allocate_n]_vars

\* ------------------------------------------------------ slots and lists
\* One allocator whose caller gives every pointer back at most once.
OnceNext ==
    \/ AllocateZero
    \/ Allocate
    \/ DeallocateNull
    \/ DeallocateLive

OnceSpec == Init /\ [][OnceNext]_vars

\* the headers on the list that starts at h (followed through next until null
\* or a header seen before)
RECURSIVE ListSet(_, _)
ListSet(h, seen) ==
    IF h = NULL \/ h \in seen THEN seen
    ELSE ListSet(hdr_next(mem, h), seen \cup {h})

\* the size class whose chain Pool object i is in
PoolClass(i) == CHOOSE c \in Classes : i \in ChainOf(pool_objs, pools[c])

\* the headers of the slots of Pool object i: memory + k * block_size
SlotsOf(i) ==
    LET sc == size_classes[PoolClass(i)]
    IN  {pool_objs[i].memory + k * sc.slot : k \in 0..(sc.blocks - 1)}

\* -------------------------------------------- get_size_class on size_t
\* x >> k for 0 < k < 16, x >> 16 and x >> 32 on 64-bit words
WShrBits(x, k) ==
    [i \in 1..4 |-> (x[i] \div (2 ^ k))
                    + (IF i = 1 THEN 0 ELSE (x[i - 1] % (2 ^ k)) * (2 ^ (16 - k)))]

WShr(x, k) ==
    IF k < 16 THEN WShrBits(x, k)
    ELSE IF k = 16 THEN <<0, x[1], x[2], x[3]>>
    ELSE <<0, 0, x[1], x[2]>>

\* 63 - __builtin_clzll(x) for x # 0
WHighBit(x) ==
    LET i == CHOOSE j \in 1..4 : x[j] # 0 /\ \A l \in 1..(j - 1) : x[l] = 0
    IN  (4 - i) * 16 + HighBit(x[i])

\* get_size_class(size) for a size_t size, 1 <= size <= 2^63; the result is
\* the uint8_t returned
get_size_class64(size) ==
    IF ~WGt(size, FromInt(TINY_THRESHOLD))
    THEN WShr(WDec(size), 3)[4] % 256
    ELSE LET n0 == WDec(size)
             n1 == WOr(n0, WShr(n0, 1))
             n2 == WOr(n1, WShr(n1, 2))
             n3 == WOr(n2, WShr(n2, 4))
             n4 == WOr(n3, WShr(n3, 8))
             n5 == WOr(n4, WShr(n4, 16))
             n6 == WOr(n5, WShr(n5, 32))
         IN  (WHighBit(WAdd(n6, FromInt(1))) - 3) % 256

ClassSizes ==
    {FromInt(s) : s \in 1..MaxSmallSize}
    \cup {WDec(WBit(k)) : k \in 7..MaxSizeBits}
    \cup {WBit(k) : k \in 7..MaxSizeBits}
    \cup {WAdd(WBit(k), FromInt(1)) : k \in 7..MaxSizeBits}

Call_get_size_class ==
    \E size \in ClassSizes :
        /\ last' = [op |-> "get_size_class", size |-> size,
                    ret |-> get_size_class64(size)]
        /\ UNCHANGED <<size_classes, free_lists, pools, pool_objs, mem, mapped,
                       live, stale, nalloc, inst, atomics, threads>>

ClassSpec == Init /\ [][Call_get_size_class]_vars

\* ------------------------------------------------------- a pool's page
\* the headers on the list that starts at h in memory m
RECURSIVE ListIn(_, _, _)
ListIn(m, h, seen) ==
    IF h = NULL \/ h \in seen THEN seen
    ELSE ListIn(m, hdr_next(m, h), seen \cup {h})

\* the number of headers that list holds, a header counted as often as the
\* list passes it, up to limit
RECURSIVE ListLen(_, _, _)
ListLen(m, h, limit) ==
    IF h = NULL \/ limit = 0 THEN 0
    ELSE 1 + ListLen(m, hdr_next(m, h), limit - 1)

\* the headers BlockHeader::init stamped in [memory, memory + cap) of memory m
HeadersIn(m, memory, cap) ==
    {a - OFF_MAGIC : a \in {x \in DOMAIN m : /\ memory + OFF_MAGIC <= x
                                             /\ x < memory + cap
                                             /\ m[x] = HEADER_MAGIC}}

\* ------------------------------------------------------------------ claims
\* C1: after any sequence of allocate and deallocate calls the payload
\* regions [p, p + bytes) of the live allocations are pairwise disjoint, and
\* none overlaps the header of any block.
C1_NoOverlap ==
    /\ \A a \in live, b \in live :
           a.id # b.id => ~Overlaps(a.p, a.bytes, b.p, b.bytes)
    /\ \A a \in live, h \in HeaderAddrs : ~Overlaps(a.p, a.bytes, h, HEADER_SIZE)

\* an allocation made after a deallocation, while two allocations of one
\* pool page are live
C1_Witness ==
    /\ last.op = "allocate" /\ last.ret # NULL
    /\ stale # {}
    /\ \E a \in live, b \in live, i \in 1..Len(pool_objs) :
           /\ a.id # b.id
           /\ \A x \in {a.p, b.p} :
                  pool_objs[i].memory <= x /\ x < pool_objs[i].memory + pool_objs[i].cap

\* C2: every pointer a successful allocate(n), n > 0, returned (pool path or
\* large path) is a multiple of the 64-byte cache line.
C2_CacheLineAligned == \A a \in live : a.p % CACHE_LINE_SIZE = 0

\* C3: the header HEADER_SIZE bytes before every live allocation satisfies
\* is_valid().
C3_LiveHeaderValid == \A a \in live : hdr_is_valid(mem, a.p - HEADER_SIZE)

\* C4: allocate(count) with count > 0 never returns null: it returns a
\* non-null pointer or fails hard (std::bad_alloc).
C4_NullOnlyForZero ==
    (last.op = "allocate" /\ last.n > 0 /\ ~last.threw) => last.ret # NULL

\* C5: for n > 0, allocate(n), then deallocate(result, n), then allocate(n):
\* the second allocate returns a non-null pointer (when no mapping fails).
C5_Step ==
    (/\ last.op = "deallocate" /\ last.follows > 0
     /\ last'.op = "allocate" /\ last'.n = last.follows /\ ~last'.oom)
    => last'.ret # NULL

C5_ReallocSucceeds == [][C5_Step]_vars

\* C6: deallocate(p, n) of a live pool-backed pointer p of size class c marks
\* its header free and makes it the head of free_lists[c], and the next
\* allocate classified into c returns p again.
C6_Step ==
    /\ (last'.op = "deallocate" /\ last'.kind = "live" /\ InPool(last'.p))
       => LET h == last'.p - HEADER_SIZE
          IN  /\ hdr_is_free(mem', h)
              /\ free_lists'[hdr_size_class(mem, h)] = h
    /\ (/\ last.op = "deallocate" /\ last.kind = "live" /\ InPool(last.p)
        /\ last'.op = "allocate" /\ last'.kind = "pool" /\ ~last'.oom
        /\ get_size_class(last'.n * SizeofT) = hdr_size_class(mem, last.p - HEADER_SIZE))
       => last'.ret = last.p

C6_FreedBlockIsReused == [][C6_Step]_vars

\* C7: allocate(0) returns null and deallocate(null, n) does nothing: neither
\* changes a free list, a pool chain, a pool, a header or a mapping.
C7_Step ==
    /\ (last'.op = "allocate" /\ last'.n = 0)
       => (last'.ret = NULL /\ UNCHANGED alloc_vars)
    /\ (last'.op = "deallocate" /\ last'.p = NULL) => UNCHANGED alloc_vars

C7_ZeroAndNullAreNoOps == [][C7_Step]_vars

\* deallocate(null) right after allocate(0) returned null, in an allocator that
\* holds pools and live allocations
C7_Witness ==
    /\ last.op = "deallocate" /\ last.p = NULL /\ last.follows = 0
    /\ pool_objs # <<>>
    /\ live # {}

\* C8: deallocate of a non-null pointer that is misaligned, or whose preceding
\* header fails is_valid(), changes no free list, pool chain, pool, header or
\* mapping.
C8_Step ==
    (/\ last'.op = "deallocate" /\ last'.p # NULL
     /\ \/ last'.p % ALIGNMENT # 0
        \/ ~hdr_is_valid(mem, last'.p - HEADER_SIZE))
    => UNCHANGED alloc_vars

C8_InvalidFreeIsNoOp == [][C8_Step]_vars

\* deallocate of an aligned foreign pointer whose header carries the magic
\* word and the marker and fails is_valid() on its size alone, and, before it,
\* pools with slots never handed out (misaligned pointers with valid headers)
C8_Witness ==
    /\ last.op = "deallocate" /\ last.p = ForeignPtr(3)
    /\ is_aligned(mem, last.p)
    /\ ~hdr_is_valid(mem, last.p - HEADER_SIZE)
    /\ Unissued # {}

\* C9: deallocating a pool-backed pointer that was already deallocated does
\* nothing; every class's free list is acyclic (holds a block at most once);
\* no two live allocations have the same pointer.
C9_ListsSound ==
    /\ \A c \in Classes : Acyclic(free_lists[c], {})
    /\ \A a \in live, b \in live : a.id # b.id => a.p # b.p

C9_Step ==
    (last'.op = "deallocate" /\ last'.kind = "stale" /\ InPool(last'.p))
    => UNCHANGED alloc_vars

C9_DoubleFreeDefended == []C9_ListsSound /\ [][C9_Step]_vars

\* the second of two deallocate(p) in a row, p pool-backed, while another
\* allocation is live
C9_Witness ==
    /\ last.op = "deallocate" /\ last.kind = "stale" /\ last.again
    /\ InPool(last.p)
    /\ live # {}

\* C10: a request of LARGE_THRESHOLD - 1 bytes is served from a size-class
\* pool with the mmap flag clear; a request of LARGE_THRESHOLD + 1 bytes is
\* served from a mapping of its own with the mmap flag set (when no mapping
\* fails).
C10_ThresholdRouting ==
    /\ (last.op = "allocate" /\ ~last.oom /\ last.n * SizeofT = LARGE_THRESHOLD - 1)
       => /\ last.ret # NULL
          /\ InPool(last.ret)
          /\ ~hdr_is_mmap(mem, last.ret - HEADER_SIZE)
    /\ (last.op = "allocate" /\ ~last.oom /\ last.n * SizeofT = LARGE_THRESHOLD + 1)
       => /\ last.ret # NULL
          /\ IsLarge(last.ret)
          /\ hdr_is_mmap(mem, last.ret - HEADER_SIZE)

\* C11: deallocate(p, n) of a live large (mmap-backed) pointer p unmaps exactly
\* the mapping the allocate that returned p made: base p - HEADER_SIZE, length
\* (payload + header) rounded up to whole pages; the mapping is live before
\* the call and gone after it, and no other mapping changes.
C11_Step ==
    (last'.op = "deallocate" /\ last'.kind = "live" /\ IsLarge(last'.p))
    => \A l \in {x \in live : x.p = last'.p} :
           LET m == [base |-> l.p - HEADER_SIZE,
                     len |-> PageRound(l.bytes + HEADER_SIZE)]
           IN  m \in mapped /\ mapped' = mapped \ {m}

C11_LargeFreeUnmaps == [][C11_Step]_vars

\* C12: when the mmap of a new pool fails while allocate needs one, allocate
\* leaves by std::bad_alloc without a pointer, and the free lists, pool
\* chains, pools, headers and mappings are as before the call.
C12_Step ==
    (last'.op = "allocate" /\ last'.kind = "pool" /\ last'.oom)
    => (last'.threw /\ last'.ret = NULL /\ UNCHANGED alloc_vars)

C12_PoolFailureThrows == [][C12_Step]_vars

\* a failed allocate for a size class whose pool is exhausted, with
\* allocations of that pool live
C12_Witness ==
    /\ last.op = "allocate" /\ last.kind = "pool" /\ last.oom /\ last.threw
    /\ pools[get_size_class(last.n * SizeofT)] # NULL
    /\ \E l \in live : InPool(l.p)

\* C13: once init(size, class, free) ran on a header, after any sequence of
\* set_free(b) and set_mmap(b) the header satisfies is_valid(), and size(),
\* size_class() and the magic word are what init made them.
C13_HeaderStaysValid ==
    (last.op \in {"init", "set_free", "set_mmap"})
    => /\ hdr_is_valid(mem, HdrAt)
       /\ hdr_size(mem, HdrAt) = FromInt(last.size)
       /\ hdr_size_class(mem, HdrAt) = last.size_class
       /\ Load(mem, HdrAt + OFF_MAGIC) = HEADER_MAGIC

\* C14: an allocator made by the converting constructor returns a non-null
\* pointer for every allocate(n), n > 0, that a default-constructed allocator
\* serves (when no mapping fails).
C14_RebindServes ==
    (last.op = "allocate" /\ last.n > 0 /\ ~last.oom /\ DefaultServes(last.n))
    => last.ret # NULL

\* C15: a pool is unmapped only when the allocator object that owns it is
\* destroyed, and at most once: no Pool that an allocator object still alive
\* references was deleted or has lost its mapping, no Pool is deleted twice,
\* and no destructor ends in a double free.
C15_PoolsOutliveUsers ==
    /\ \A pool \in UsedPools :
           /\ DelCount(inst.deleted, pool) = 0
           /\ IsMapped(mapped, pool_objs[pool].memory, pool_objs[pool].cap)
    /\ \A pool \in DOMAIN inst.deleted : inst.deleted[pool] <= 1
    /\ inst.fault # "double free"

\* C16: when an allocator object that was never copied (the only allocator
\* object) is destroyed, every Pool it created was deleted exactly once and no
\* byte of any pool's page is still mapped.
C16_DestroyReleasesPools ==
    (inst.made = "none" /\ ~inst.alive[1])
    => /\ inst.fault = "none"
       /\ \A pool \in 1..Len(pool_objs) :
              /\ DelCount(inst.deleted, pool) = 1
              /\ \A m \in mapped :
                     ~Overlaps(m.base, m.len, pool_objs[pool].memory, pool_objs[pool].cap)

\* the only allocator object, destroyed after allocations and a deallocation
\* that left two pools in one class's chain
C16_Witness ==
    /\ inst.made = "none" /\ ~inst.alive[1]
    /\ stale # {}
    /\ \E a \in 1..Len(pool_objs), b \in 1..Len(pool_objs) : pool_objs[a].next = b

C18_MaxSize ==
    (last.op = "max_size")
    => LET top == bytes_needed(last.ret, 0, last.sizeof_T)
       IN  /\ last.ret # ZeroWord
           /\ ~top.wrapped
           /\ WGt(FromInt(last.sizeof_T), WAdd(OnesWord, WAdd(WNot(top.bytes), FromInt(1))))
           /\ (last.plus = 0 /\ ~WGt(last.base, last.ret)) => ~last.wrapped
           /\ (last.plus = 1 /\ last.base = last.ret) => last.wrapped

\* the probe max_size() + 1 for sizeof(T) = 4, and its byte count wraps
C18_Witness ==
    /\ last.op = "max_size" /\ last.sizeof_T = 4
    /\ last.plus = 1 /\ last.base = last.ret
    /\ last.wrapped

\* C19: however the threads' calls of double_checked_init interleave, the
\* initialisation function runs at most once, the value stays what its first
\* run wrote, and when no call is under way and some call was made, it ran
\* exactly once and the flag is true.
C19_InitOnce ==
    /\ atomics.init_counter <= 1
    /\ atomics.init_counter >= 1 => atomics.value = atomics.first
    /\ (/\ \A t \in Threads : threads[t].pc \in {"idle", "done"}
        /\ \E t \in Threads : threads[t].calls > 0)
       => (atomics.init_counter = 1 /\ atomics.initialized)

\* C20: however the threads' fetch_add(atom, 1) and increment(atom)
\* operations interleave, the atomic holds the number of operations done (so
\* NumThreads * Iterations when all are done), fetch_add returns the value
\* before its addition and increment the value right after its own addition.
C20_NoLostIncrement ==
    /\ atomics.atom = SumOver([t \in Threads |-> threads[t].ops], Threads)
    /\ (\A t \in Threads : threads[t].ops = Iterations)
       => atomics.atom = NumThreads * Iterations
    /\ \A t \in Threads :
           /\ threads[t].op = "increment" => threads[t].ret = threads[t].seen
           /\ threads[t].op = "fetch_add" => threads[t].ret + 1 = threads[t].seen

\* every thread has done all its operations, the last of some thread an
\* increment and of another a fetch_add
C20_Witness ==
    /\ \A t \in Threads : threads[t].ops = Iterations
    /\ \E t \in Threads, u \in Threads :
           threads[t].op = "increment" /\ threads[u].op = "fetch_add"

\* C21: message passing.  The sender writes the words of the message and then
\* calls publish_store(flag, true); once the receiver's consume_load(flag)
\* returned true, every word it reads is the value the sender wrote before it
\* published, however the two threads interleave.
C21_MessagePassing ==
    \A w \in 1..Len(threads.receiver.got) :
        /\ w <= Len(threads.sender.sent)
        /\ threads.receiver.got[w] = threads.sender.sent[w]

\* the receiver has read the whole message, whose words differ
C21_Witness ==
    /\ Len(threads.receiver.got) = MsgWords
    /\ threads.receiver.got = threads.sender.sent
    /\ \E w \in 1..MsgWords : threads.receiver.got[w] # threads.receiver.got[1]

\* C22: spin_wait_until_equals(atom, v) has not returned while the atomic has
\* never held v; and, every waiting thread being scheduled again and again,
\* if from some point on the atomic's value is v for good, the call returns.
C22_SpinWait ==
    /\ [](\A t \in Threads : threads[t].pc = "returned" => Expected \in atomics.held)
    /\ \A t \in Threads :
           <>[](atomics.atom = Expected) => <>(threads[t].pc = "returned")

\* every waiter has returned, after a store of another value and a store of
\* the expected one, while one waiter had begun to wait before any store
C22_Witness ==
    /\ \A t \in Threads : threads[t].pc = "returned"
    /\ 7 \in atomics.held
    /\ atomics.atom = Expected

\* C23: for every successful allocate(n), n > 0, the bytes from the returned
\* pointer to the end of its slot (pool path) or of its mapping (large path)
\* are at least the true product n * sizeof(T), which did not wrap, and the
\* slot lies inside the pool page, the block inside its mapping.
C23_EnoughStorage ==
    (last.op = "allocate_n" /\ last.ret # NULL)
    => LET h == last.ret - HEADER_SIZE
           c == hdr_size_class(mem, h)
       IN  /\ ~last.wrapped
           /\ \/ \E i \in 1..Len(pool_objs) :
                     /\ c < SIZE_CLASSES
                     /\ pool_objs[i].memory <= h
                     /\ h + size_classes[c].slot <= pool_objs[i].memory + pool_objs[i].cap
                     /\ size_classes[c].slot - HEADER_SIZE >= last.bytes
              \/ \E m \in mapped :
                     /\ ~InPool(m.base)
                     /\ m.base = h
                     /\ m.len - HEADER_SIZE >= last.bytes

\* C24: when allocate creates a new pool for size class c, the pool's blocks
\* are threaded into free_lists[c] and not into the pool's private free list:
\* after the call the new pool's own list is empty, and the blocks of its page
\* that were not handed out are on free_lists[c].
C24_Step ==
    (last'.op = "allocate" /\ Len(pool_objs') > Len(pool_objs))
    => LET c == get_size_class(last'.n * SizeofT)
           new_pool == pool_objs'[Len(pool_objs')]
       IN  /\ new_pool.free_list = NULL
           /\ size_classes[c].blocks > 1
              => /\ new_pool.memory <= free_lists'[c]
                 /\ free_lists'[c] < new_pool.memory + new_pool.cap

C24_PoolFeedsClassList == [][C24_Step]_vars

\* C25: in one allocator whose caller gives every live pointer back at most
\* once, every slot of every pool is in exactly one of three places: on its
\* size class's free list, on a pool's private free list, or live with the
\* caller; no list holds a slot twice; and a slot's header has the free flag
\* set exactly when the slot is on a list.
C25_SlotInOnePlace ==
    /\ \A c \in Classes : Acyclic(free_lists[c], {})
    /\ \A i \in 1..Len(pool_objs) :
           /\ Acyclic(pool_objs[i].free_list, {})
           /\ \A s \in SlotsOf(i) :
                  LET on_class == s \in ListSet(free_lists[PoolClass(i)], {})
                      on_pool == \E j \in 1..Len(pool_objs) :
                                     s \in ListSet(pool_objs[j].free_list, {})
                      is_live == \E l \in live : l.p = s + HEADER_SIZE
                  IN  /\ on_class \/ on_pool \/ is_live
                      /\ ~(on_class /\ on_pool)
                      /\ ~(on_class /\ is_live)
                      /\ ~(on_pool /\ is_live)
                      /\ hdr_is_free(mem, s) <=> (on_class \/ on_pool)

\* C26: for each class index i in 0..31 the table built at construction holds
\* the nominal size 2^(i+3); the slot size, (nominal size + header size)
\* rounded up to a multiple of max(64, nominal size), which is 64 for nominal
\* sizes below 64 and twice the nominal size from 64 on; and as blocks per
\* page 4096 divided by that slot size.
C26_SizeTable ==
    \A i \in Classes :
        /\ FromInt(size_classes[i].size) = WBit(i + 3)
        /\ FromInt(size_classes[i].slot) =
               (IF i + 3 < 6 THEN FromInt(ALIGNMENT) ELSE WBit(i + 4))
        /\ size_classes[i].blocks =
               (IF i + 3 < 6 THEN PAGE_SIZE \div ALIGNMENT
                ELSE IF i + 4 <= 12 THEN 2 ^ (12 - (i + 4))
                ELSE 0)

\* C27: for every byte count size >= 1, get_size_class(size) is (size - 1) / 8
\* when size <= 64, and otherwise log2 of the least power of two that is at
\* least size, minus 3, clamped to the last class index 31; the result is a
\* valid class index (below 32), and the call changes no state.
C27_Step ==
    (last'.op = "get_size_class")
    => /\ UNCHANGED alloc_vars
       /\ last'.ret < SIZE_CLASSES
       /\ IF ~WGt(last'.size, FromInt(TINY_THRESHOLD))
          THEN last'.ret = (ToInt(last'.size) - 1) \div 8
          ELSE \E k \in 0..63 :
                   /\ ~WGt(last'.size, WBit(k))
                   /\ k = 0 \/ WGt(last'.size, WBit(k - 1))
                   /\ last'.ret = (IF k - 3 > SIZE_CLASSES - 1
                                   THEN SIZE_CLASSES - 1 ELSE k - 3)

C28_Step ==
    (last'.op = "allocate" /\ last'.kind = "pool")
    => LET c == get_size_class(last'.n * SizeofT)
           list_empty == free_lists[c] = NULL
           pool_out == \/ pools[c] = NULL
                       \/ pool_objs[pools[c]].free_list = NULL
           header == last'.ret - HEADER_SIZE
       IN  /\ Len(pool_objs') > Len(pool_objs) => (list_empty /\ pool_out)
           /\ ~(list_empty /\ pool_out)
              => /\ pool_objs' = [pool_objs EXCEPT ![pools[c]].free_list =
                                     IF list_empty THEN hdr_next(mem, header) ELSE @]
                 /\ pools' = pools
                 /\ mapped' = mapped
                 /\ last'.ret # NULL
                 /\ header = (IF list_empty THEN pool_objs[pools[c]].free_list
                              ELSE free_lists[c])
                 /\ hdr_is_free(mem, header)

C28_PoolOnlyWhenNeeded == [][C28_Step]_vars

\* the allocate that made a second pool for a class whose first pool was used
\* up by the allocates before it
C28_Witness ==
    /\ last.op = "allocate" /\ last.kind = "pool" /\ last.ret # NULL
    /\ \E i \in 1..Len(pool_objs) :
           /\ pool_objs[i].next # NULL
           /\ pool_objs[i].memory <= last.ret
           /\ last.ret < pool_objs[i].memory + pool_objs[i].cap
           /\ pool_objs[pool_objs[i].next].free_list = NULL
           /\ \E l \in live : pool_objs[pool_objs[i].next].memory <= l.p
                              /\ l.p < pool_objs[pool_objs[i].next].memory + PAGE_SIZE

\* C29: an allocate(n) call with n > 0 that returns null (and does not leave
\* by an exception) leaves the allocator unchanged: no pool is added to a
\* chain, no page is mapped, no free list and no header changes.
C29_Step ==
    (last'.op = "allocate" /\ last'.n > 0 /\ last'.ret = NULL /\ ~last'.threw)
    => UNCHANGED alloc_vars

C29_NullLeavesNoPool == [][C29_Step]_vars

\* C30: immediately after allocate_pool made a pool for size class c, its page
\* holds exactly blocks-per-page(c) headers, at the offsets i * slot size; each
\* is valid, has the free flag set and the mmap flag clear, size_class c and
\* as size the nominal size 2^(c+3); the pool's free list chains exactly
\* these headers, each once; and blocks-per-page(c) * slot size is at most the
\* 4096 bytes of the page.
C30_Step ==
    (last'.op = "allocate" /\ Len(pool_objs') > Len(pool_objs))
    => LET c == get_size_class(last'.n * SizeofT)
           s1 == allocate_pool(State, c, TRUE).st
           new_pool == s1.pool_objs[s1.pools[c]]
           sc == size_classes[c]
           slots == {new_pool.memory + i * sc.slot : i \in 0..(sc.blocks - 1)}
       IN  /\ s1.pools[c] = Len(pool_objs')
           /\ new_pool.next = pools[c]
           /\ new_pool.memory % PAGE_SIZE = 0
           /\ HeadersIn(s1.mem, new_pool.memory, new_pool.cap) = slots
           /\ Cardinality(slots) = sc.blocks
           /\ \A h \in slots :
                  /\ hdr_is_valid(s1.mem, h)
                  /\ hdr_is_free(s1.mem, h)
                  /\ ~hdr_is_mmap(s1.mem, h)
                  /\ hdr_size_class(s1.mem, h) = c
                  /\ hdr_size(s1.mem, h) = WBit(c + 3)
           /\ ListIn(s1.mem, new_pool.free_list, {}) = slots
           /\ ListLen(s1.mem, new_pool.free_list, sc.blocks + 1) = sc.blocks
           /\ sc.blocks * sc.slot <= PAGE_SIZE

C30_FreshPoolLayout == [][C30_Step]_vars

\* a second pool of a class of eight slots per page was just made and its
\* first block handed out
C30_Witness ==
    /\ last.op = "allocate" /\ last.ret # NULL
    /\ LET c == get_size_class(last.n * SizeofT)
       IN  /\ size_classes[c].blocks = 8
           /\ pools[c] # NULL
           /\ Cardinality(ListIn(mem, pool_objs[pools[c]].free_list, {})) = 7
           /\ Len(pool_objs) >= 2

\* C31: successive allocations served from a pool (the class free list being
\* empty) return its slots in the reverse of the order they were initialised:
\* with r slots left on the pool's list after the call, the call returned
\* slot r, and the list holds the slots r - 1 down to 0 with slot r - 1 at its
\* head; so a fresh pool gives its last slot first and slot 0 last.
C31_Step ==
    (/\ last'.op = "allocate" /\ last'.kind = "pool" /\ last'.ret # NULL
     /\ free_lists[get_size_class(last'.n * SizeofT)] = NULL)
    => LET c == get_size_class(last'.n * SizeofT)
           sc == size_classes[c]
           pool == pool_objs'[pools'[c]]
           r == ListLen(mem', pool.free_list, sc.blocks + 1)
       IN  /\ r < sc.blocks
           /\ last'.ret = pool.memory + r * sc.slot + HEADER_SIZE
           /\ pool.free_list = (IF r = 0 THEN NULL
                                ELSE pool.memory + (r - 1) * sc.slot)
           /\ ListIn(mem', pool.free_list, {}) =
                  {pool.memory + i * sc.slot : i \in 0..(r - 1)}
           /\ Len(pool_objs') > Len(pool_objs) => r = sc.blocks - 1

C31_LifoOrder == [][C31_Step]_vars

\* slot 0 of a pool was just handed out, after its slot 1, and the pool's list
\* is empty
C31_Witness ==
    /\ last.op = "allocate" /\ last.kind = "pool" /\ last.ret # NULL
    /\ LET c == get_size_class(last.n * SizeofT)
           pool == pool_objs[pools[c]]
       IN  /\ last.ret = pool.memory + HEADER_SIZE
           /\ pool.free_list = NULL
           /\ \E l \in live : l.p = pool.memory + size_classes[c].slot + HEADER_SIZE

\* C32: allocate(n) takes the large-object path if and only if the byte count
\* n * sizeof(T) it computed is at least LARGE_THRESHOLD (1048576): with no
\* mapping failing, such a request (exactly 1 MiB included) gets a mapping of
\* its own, flagged mmap, and no pool is made; every smaller request makes
\* the pool of its size class, and what it returns lies in that pool's page.
C32_LargeIffAtThreshold ==
    (last.op = "allocate_n" /\ ~last.oom)
    => IF last.bytes >= LARGE_THRESHOLD
       THEN /\ pool_objs = <<>>
            /\ last.ret # NULL
            /\ IsLarge(last.ret)
            /\ hdr_is_mmap(mem, last.ret - HEADER_SIZE)
       ELSE /\ Len(pool_objs) = 1
            /\ pools[get_size_class(last.bytes)] = 1
            /\ mapped = {[base |-> pool_objs[1].memory, len |-> PAGE_SIZE]}
            /\ last.ret # NULL => (InPool(last.ret)
                                   /\ ~hdr_is_mmap(mem, last.ret - HEADER_SIZE))

\* a request of exactly 1 MiB (LARGE_THRESHOLD elements of one byte) was
\* mapped directly
C32_Witness ==
    /\ last.op = "allocate_n" /\ last.bytes = LARGE_THRESHOLD /\ last.sizeof_T = 1
    /\ last.ret # NULL /\ IsLarge(last.ret)

\* C33: a successful large allocation of bytes bytes maps one fresh region,
\* page-aligned and apart from every mapping there was, of length
\* (bytes + header size) rounded up to a multiple of 4096; the header at its
\* start has size() = bytes, size_class() = 255 and is_mmap(); the pointer
\* returned is the region's start plus the header size; and no pool chain,
\* pool or free list changes.
C33_Step ==
    (last'.op = "allocate" /\ last'.kind = "large" /\ last'.ret # NULL)
    => LET bytes == last'.n * SizeofT
           base == last'.ret - HEADER_SIZE
           m == [base |-> base,
                 len |-> ((bytes + HEADER_SIZE + PAGE_SIZE - 1) \div PAGE_SIZE) * PAGE_SIZE]
       IN  /\ m \notin mapped
           /\ mapped' = mapped \cup {m}
           /\ base % PAGE_SIZE = 0
           /\ \A old \in mapped : ~Overlaps(m.base, m.len, old.base, old.len)
           /\ hdr_size(mem', base) = FromInt(bytes)
           /\ hdr_size_class(mem', base) = LARGE_CLASS
           /\ hdr_is_mmap(mem', base)
           /\ \A a \in DOMAIN mem : a \in DOMAIN mem' /\ mem'[a] = mem[a]
           /\ UNCHANGED <<size_classes, free_lists, pools, pool_objs>>

C33_LargeAllocation == [][C33_Step]_vars

\* a large allocation made while a pool and another large allocation exist
C33_Witness ==
    /\ last.op = "allocate" /\ last.kind = "large" /\ last.ret # NULL
    /\ pool_objs # <<>>
    /\ \E l \in live : l.p # last.ret /\ IsLarge(l.p)

\* C34: right after init(size, class, free) the header reads back what it was
\* given: size() = size, size_class() = class, is_free() = free, is_mmap() is
\* false and next is null; and the free bit, the mmap bit and the validity
\* marker's bits are pairwise disjoint.
C34_HeaderRoundTrip ==
    last.op = "init"
    => /\ hdr_size(mem, HdrAt) = FromInt(last.size)
       /\ hdr_size_class(mem, HdrAt) = last.size_class
       /\ hdr_is_free(mem, HdrAt) = last.arg
       /\ ~hdr_is_mmap(mem, HdrAt)
       /\ hdr_next(mem, HdrAt) = NULL
       /\ WAnd(FREE_FLAG, MMAP_FLAG) = ZeroWord
       /\ WAnd(FREE_FLAG, MAGIC_MASK) = ZeroWord
       /\ WAnd(MMAP_FLAG, MAGIC_MASK) = ZeroWord

\* C35: pools are made lazily and per class. A freshly constructed allocator
\* has no pool and an empty free list in each of the 32 classes; an allocate
\* classified into class c makes at most one pool, links it at the head of
\* class c's chain, and leaves the chain and the free list of every other
\* class as they were; a large or zero allocate and every deallocate make no
\* pool and change no chain, and a deallocate changes no free list but that
\* of the class written in the block's header.
C35_Fresh ==
    /\ DOMAIN pools = 0..(SIZE_CLASSES - 1)
    /\ DOMAIN free_lists = 0..(SIZE_CLASSES - 1)
    /\ \A c \in 0..(SIZE_CLASSES - 1) : pools[c] = NULL /\ free_lists[c] = NULL
    /\ pool_objs = <<>>

C35_Step ==
    /\ (last'.op = "allocate" /\ last'.kind = "pool")
       => LET c == get_size_class(last'.n * SizeofT)
          IN  /\ \A d \in (0..(SIZE_CLASSES - 1)) \ {c} :
                    pools'[d] = pools[d] /\ free_lists'[d] = free_lists[d]
              /\ Len(pool_objs') \in {Len(pool_objs), Len(pool_objs) + 1}
              /\ Len(pool_objs') > Len(pool_objs)
                 => /\ pools'[c] = Len(pool_objs')
                    /\ pool_objs'[pools'[c]].next = pools[c]
              /\ Len(pool_objs') = Len(pool_objs) => pools'[c] = pools[c]
              /\ \A i \in 1..Len(pool_objs) :
                    /\ pool_objs'[i].memory = pool_objs[i].memory
                    /\ pool_objs'[i].next = pool_objs[i].next
                    /\ i # pools'[c] => pool_objs'[i] = pool_objs[i]
    /\ (last'.op = "allocate" /\ last'.kind \in {"large", "zero"})
       => UNCHANGED <<pools, pool_objs, free_lists>>
    /\ last'.op = "deallocate"
       => /\ UNCHANGED <<pools, pool_objs>>
          /\ \A d \in 0..(SIZE_CLASSES - 1) :
                free_lists'[d] # free_lists[d]
                => /\ last'.p # NULL
                   /\ d = hdr_size_class(mem, last'.p - HEADER_SIZE)

C35_LazyPerClass == C35_Fresh /\ [][C35_Step]_vars

\* pools of two different classes exist, the later made by the last allocate
C35_Witness ==
    /\ last.op = "allocate" /\ last.kind = "pool"
    /\ pools[get_size_class(last.n * SizeofT)] = Len(pool_objs)
    /\ \E d \in 0..(SIZE_CLASSES - 1) :
          d # get_size_class(last.n * SizeofT) /\ pools[d] # NULL

\* C36: in every reachable state and for every size class, each pool of the
\* class's chain other than its head (the pool made last) has an empty private
\* free list: looking at the head alone before making a pool strands no free
\* block of an older pool.
C36_OlderPoolsEmpty ==
    \A c \in Classes :
        \A i \in ChainOf(pool_objs, pools[c]) \ {pools[c]} :
            pool_objs[i].free_list = NULL

\* a chain of two pools whose head still has a free block while the older
\* pool has handed out both of its own
C36_Witness ==
    \E c \in Classes :
        /\ pools[c] # NULL
        /\ pool_objs[pools[c]].next # NULL
        /\ pool_objs[pools[c]].free_list # NULL
        /\ size_classes[c].blocks > 1
        /\ pool_objs[pool_objs[pools[c]].next].free_list = NULL

C38_Step ==
    (last'.op = "deallocate" /\ last'.p # NULL)
    => (is_aligned(mem, last'.p)
        <=> /\ last'.p % 64 = 0
            /\ Load(mem, last'.p - 16) = HEADER_MAGIC)

C38_IsAligned == [][C38_Step]_vars

\* the statement with the word at ptr - 8 in place of the word at ptr - 16
C38_Step_WordBefore ==
    (last'.op = "deallocate" /\ last'.p # NULL)
    => (is_aligned(mem, last'.p)
        <=> /\ last'.p % 64 = 0
            /\ Load(mem, last'.p - 8) = HEADER_MAGIC)

C38_IsAligned_WordBefore == [][C38_Step_WordBefore]_vars

\* deallocate was given a pointer that is_aligned accepts, after pools were
\* made and blocks handed out
C38_Witness ==
    /\ last.op = "deallocate" /\ last.p = ForeignPtr(2)
    /\ is_aligned(mem, last.p)
    /\ live # {}

====
